---- MODULE Spec2Model ----
(***************************************************************************)
(* Model of the remnote-flashcard-generator core: the Flashcard            *)
(* fingerprint, the CardGenerator (generation policy + duplicate filter)   *)
(* and the RemNoteFormatter (escaper, per-card formatter, hierarchy        *)
(* grouping).  Text is modelled as a sequence of one-character strings so  *)
(* that str.replace, str.split and the cloze regular expression are        *)
(* computed as the code computes them.                                     *)
(***************************************************************************)
EXTENDS Integers, Sequences, FiniteSets, TLC

VARIABLES
    text,            \* _escape_special_chars: the argument
    escaped_text,    \* _escape_special_chars: the returned text
    escape_done,     \* TRUE once _escape_special_chars has returned
    card,            \* _format_card: the argument
    formatted,       \* _format_card: the returned text
    format_done,     \* TRUE once _format_card has returned
    card_a,          \* Flashcard.__post_init__: a first constructed card
    card_b,          \* Flashcard.__post_init__: a second constructed card
    cards,           \* format_cards: the list of cards of the last call, as handed in
    cards_after,     \* format_cards: the card objects of that list once the call has returned
    hierarchy,       \* format_cards: the hierarchy flag of the last call
    output_lines,    \* format_cards: the lines joined into the returned document
    stats,           \* RemNoteFormatter.stats
    format_calls,    \* number of format_cards calls made on the formatter
    config,          \* CardGenerator.config['card_types'], defaults applied
    generated_cards, \* CardGenerator.generated_cards: the seen fingerprints
    generation_stats,\* CardGenerator.generation_stats
    stack,           \* the active generate_cards calls, innermost last
    result,          \* the list returned by the last completed outermost generate_cards
    result_origins,  \* for each card of result: the topic (path) and parent_context of the call that generated it
    raised,          \* TRUE once a generate_cards call has raised
    returned,        \* fingerprints of all cards returned since construction / reset_stats
    submitted,       \* fingerprints of all candidates handed to the filter since then
    candidates,      \* number of candidates handed to the filter since then
    kind_log,        \* per topic and kind of the current outermost call: what the kind did
    calls_made,      \* number of outermost generate_cards calls made
    topics_started,  \* number of topics handed to generate_cards, subtopics included
    retry_attempts,  \* LLMConfig.retry_attempts
    retry_delay,     \* LLMConfig.retry_delay
    attempt,         \* _retry_with_backoff: the loop variable
    retry_status,    \* _retry_with_backoff: "running", "returned" or "raised"
    retry_value,     \* _retry_with_backoff: the value returned or the exception raised
    delays,          \* the arguments of the time.sleep calls made, in order
    outcomes,        \* what each invocation of func did, in order
    content_topics,  \* main: content.topics, the top-level topics (as indices of Trees)
    topic_i,         \* main: the position of `topic` in content.topics
    sub_j,           \* main: the position in topic.subtopics of the next `subtopic`
    main_pc,         \* main: where the loop stands ("loop", "topic", "subtopic")
    all_cards        \* main: all_cards

vars == <<text, escaped_text, escape_done, card, formatted, format_done, card_a, card_b,
          cards, cards_after, hierarchy, output_lines, stats, format_calls,
          config, generated_cards, generation_stats, stack, result, result_origins, raised,
          returned, submitted, candidates, kind_log, calls_made, topics_started,
          retry_attempts, retry_delay, attempt, retry_status, retry_value, delays, outcomes,
          content_topics, topic_i, sub_j, main_pc, all_cards>>

escVars == <<text, escaped_text, escape_done>>
cardVars == <<card, formatted, format_done>>
hashVars == <<card_a, card_b>>
fmtVars == <<cards, cards_after, hierarchy, output_lines, stats, format_calls>>
genVars == <<config, generated_cards, generation_stats, stack, result, result_origins, raised,
             returned, submitted, candidates, kind_log, calls_made, topics_started>>

retryVars == <<retry_attempts, retry_delay, attempt, retry_status, retry_value, delays, outcomes>>
mainVars == <<content_topics, topic_i, sub_j, main_pc, all_cards>>

\* the variables each specification leaves alone
notEsc == <<cardVars, hashVars, fmtVars, genVars, retryVars, mainVars>>
notCard == <<escVars, hashVars, fmtVars, genVars, retryVars, mainVars>>
notHash == <<escVars, cardVars, fmtVars, genVars, retryVars, mainVars>>
notFmt == <<escVars, cardVars, hashVars, genVars, retryVars, mainVars>>
notGenMain == <<escVars, cardVars, hashVars, fmtVars, retryVars>>
notGen == <<notGenMain, mainVars>>
notRetry == <<escVars, cardVars, hashVars, fmtVars, genVars, mainVars>>

(***************************************************************************)
(* Bounds                                                                  *)
(***************************************************************************)
MaxPieces == 4       \* an escaper input is a concatenation of at most this many pieces
MaxCards == 3        \* a list handed to format_cards holds at most this many cards
MaxFormatCalls == 2  \* format_cards is called at most this many times on one formatter
MaxCalls == 2        \* outermost generate_cards calls made on one CardGenerator
MaxTopics == 3       \* topics handed to generate_cards on one CardGenerator, subtopics included
MaxAttempts == 4     \* LLMConfig.retry_attempts is at most this
MaxGiven == 2        \* candidates handed to the duplicate filter and then to the formatter

None == <<"None">>   \* Python's None (no text is equal to it: texts hold single characters)

(***************************************************************************)
(* Text primitives (Python str)                                            *)
(***************************************************************************)
\* t occurs in s starting at position i
MatchAt(s, t, i) ==
    /\ i >= 1
    /\ i + Len(t) - 1 <= Len(s)
    /\ SubSeq(s, i, i + Len(t) - 1) = t

\* `t in s` for a non-empty t
Contains(s, t) == \E i \in 1..Len(s) : MatchAt(s, t, i)

\* s.replace(old, new): leftmost, non-overlapping occurrences, in one pass
RECURSIVE ReplaceFrom(_, _, _, _)
ReplaceFrom(s, old, new, i) ==
    IF i > Len(s) THEN <<>>
    ELSE IF MatchAt(s, old, i) THEN new \o ReplaceFrom(s, old, new, i + Len(old))
    ELSE <<s[i]>> \o ReplaceFrom(s, old, new, i + 1)

Replace(s, old, new) == ReplaceFrom(s, old, new, 1)

\* a match of the pattern \{\{([^}]+)\}\} that opens at a and whose closing
\* braces start at b
ClozeMatch(s, a, b) ==
    /\ MatchAt(s, <<"{", "{">>, a)
    /\ MatchAt(s, <<"}", "}">>, b)
    /\ b >= a + 3
    /\ \A k \in (a + 2)..(b - 1) : s[k] # "}"

\* re.search(cloze_pattern, s) is not None
ClozeSearch(s) == \E a \in 1..Len(s), b \in 1..Len(s) : ClozeMatch(s, a, b)

(***************************************************************************)
(* RemNoteFormatter._escape_special_chars                                  *)
(***************************************************************************)
\* the replacements dict, in insertion (= iteration) order
replacements == <<
    << <<":", ":">>,      <<":", " ", ":">> >>,
    << <<">", ">">>,      <<">", " ", ">">> >>,
    << <<"<", "<">>,      <<"<", " ", "<">> >>,
    << <<";", ";">>,      <<";", " ", ";">> >>,
    << <<"<", ">">>,      <<"<", " ", ">">> >>,
    << <<"#", "[", "[">>, <<"#", " ", "[", "[">> >>,
    << <<"]", "]">>,      <<"]", " ", "]">> >> >>

\* the loop `for original, replacement in replacements.items()`
RECURSIVE ApplyReplacements(_, _)
ApplyReplacements(s, k) ==
    IF k > Len(replacements) THEN s
    ELSE ApplyReplacements(Replace(s, replacements[k][1], replacements[k][2]), k + 1)

_escape_special_chars(t) ==
    IF t = <<>> THEN t
    ELSE LET r == ApplyReplacements(t, 1) IN
         IF /\ Contains(r, <<"{", "{">>)
            /\ Contains(r, <<"}", "}">>)
            /\ ~ClozeSearch(r)
         THEN Replace(Replace(r, <<"{", "{">>, <<"{", " ", "{">>),
                      <<"}", "}">>, <<"}", " ", "}">>)
         ELSE r

\* the statistics side effect of one call: special_chars_escaped += 1
EscapeCounted(t) == IF Len(_escape_special_chars(t)) # Len(t) THEN 1 ELSE 0

(***************************************************************************)
(* CardType, CardDirection, Flashcard                                      *)
(***************************************************************************)
\* the enumerations, by their .value
CardType == {"concept", "basic", "cloze", "descriptor", "multiline_basic",
             "multiline_concept", "multiline_descriptor", "list_answer",
             "multiple_choice"}

CardDirection == {"forward", "backward", "bidirectional", "disabled"}

\* ','.join(items)
RECURSIVE Join(_, _)
Join(items, sep) ==
    IF items = <<>> THEN <<>>
    ELSE IF Len(items) = 1 THEN items[1]
    ELSE items[1] \o sep \o Join(Tail(items), sep)

\* the string that Flashcard.__post_init__ hands to the digest
HashContent(front, back, card_type, direction, list_items) ==
    LET content == front \o <<"|", "|">> \o back \o <<"|", "|">> \o <<card_type>>
                         \o <<"|", "|">> \o <<direction>>
    IN IF list_items # <<>>
       THEN content \o <<"|", "|">> \o Join(list_items, <<",">>)
       ELSE content

\* hashlib.md5(content.encode()).hexdigest()[:8]: the digest is a function of
\* the hashed string and of nothing else
Digest(content) == <<"md5", content>>

\* a variant of __post_init__ that also hashes the parent
Flashcard_hashing_parent(card_type, front, back, parent, tags, difficulty, direction, list_items, correct_choice_index, use_triple_delimiter) ==
    [card_type |-> card_type, front |-> front, back |-> back, parent |-> parent,
     tags |-> tags, difficulty |-> difficulty, direction |-> direction,
     list_items |-> list_items, correct_choice_index |-> correct_choice_index,
     use_triple_delimiter |-> use_triple_delimiter,
     source_hash |-> Digest(HashContent(front, back, card_type, direction, list_items) \o <<"|", "|">> \o parent)]

\* Flashcard(...) followed by __post_init__, no source_hash supplied
Flashcard(card_type, front, back, parent, tags, difficulty, direction, list_items, correct_choice_index, use_triple_delimiter) ==
    [card_type |-> card_type, front |-> front, back |-> back, parent |-> parent,
     tags |-> tags, difficulty |-> difficulty, direction |-> direction,
     list_items |-> list_items, correct_choice_index |-> correct_choice_index,
     use_triple_delimiter |-> use_triple_delimiter,
     source_hash |-> Digest(HashContent(front, back, card_type, direction, list_items))]

(***************************************************************************)
(* RemNoteFormatter: one card                                              *)
(***************************************************************************)
SP == <<" ">>
INDENT == <<" ", " ", " ", " ">>

\* a variant of _format_cloze that escapes the text it returns
_format_cloze_escaped(c) == _escape_special_chars(c.front)

_format_cloze(c) == c.front

_format_multiline_concept(c) ==
    LET front == _escape_special_chars(c.front) IN
    IF c.use_triple_delimiter
    THEN front \o <<" ", ":", ":", ":">>
    ELSE LET back == _escape_special_chars(c.back)
             back_formatted == Replace(back, <<"\\", "n">>, <<"\n">> \o INDENT)
         IN front \o <<" ", ":", ":", "\n">> \o INDENT \o back_formatted

_format_list_answer(c) ==
    LET front == _escape_special_chars(c.front) IN
    IF c.list_items # <<>>
    THEN front \o <<" ", ">", ">", "1", ".">>
    ELSE front \o <<" ", ">", ">", " ">> \o _escape_special_chars(c.back)

_format_multiple_choice(c) ==
    LET front == _escape_special_chars(c.front) IN
    IF c.list_items # <<>> /\ Len(c.list_items) > 1
    THEN front \o <<" ", ">", ">", "A", ")">>
    ELSE front \o <<" ", ">", ">", " ">> \o _escape_special_chars(c.back)

\* a variant of the type/direction chain in which a descriptor has no forward
\* delimiter of its own
format_by_type_no_forward_descriptor(c, front, back) ==
    LET join(d) == front \o SP \o d \o SP \o back IN
    IF c.card_type = "concept" THEN
        IF c.direction = "forward" THEN join(<<":", ">">>)
        ELSE IF c.direction = "backward" THEN join(<<":", "<">>)
        ELSE join(<<":", ":">>)
    ELSE IF c.card_type = "basic" THEN
        IF c.direction = "backward" THEN join(<<"<", "<">>)
        ELSE IF c.direction = "bidirectional" THEN join(<<"<", ">">>)
        ELSE join(<<">", ">">>)
    ELSE IF c.card_type = "cloze" THEN _format_cloze(c)
    ELSE IF c.card_type = "descriptor" THEN
        IF c.direction = "backward" THEN join(<<";", "<">>)
        ELSE join(<<";", ";">>)
    ELSE IF c.card_type = "multiline_concept" THEN _format_multiline_concept(c)
    ELSE IF c.card_type = "list_answer" THEN _format_list_answer(c)
    ELSE IF c.card_type = "multiple_choice" THEN _format_multiple_choice(c)
    ELSE join(<<">", ">">>)

\* _format_card below the disabled check: the if/elif chain on card_type and
\* direction
format_by_type(c, front, back) ==
    LET join(d) == front \o SP \o d \o SP \o back IN
    IF c.card_type = "concept" THEN
        IF c.direction = "forward" THEN join(<<":", ">">>)
        ELSE IF c.direction = "backward" THEN join(<<":", "<">>)
        ELSE join(<<":", ":">>)
    ELSE IF c.card_type = "basic" THEN
        IF c.direction = "backward" THEN join(<<"<", "<">>)
        ELSE IF c.direction = "bidirectional" THEN join(<<"<", ">">>)
        ELSE join(<<">", ">">>)
    ELSE IF c.card_type = "cloze" THEN _format_cloze(c)
    ELSE IF c.card_type = "descriptor" THEN
        IF c.direction = "backward" THEN join(<<";", "<">>)
        ELSE IF c.direction = "forward" THEN join(<<";", ">">>)
        ELSE join(<<";", ";">>)
    ELSE IF c.card_type = "multiline_concept" THEN _format_multiline_concept(c)
    ELSE IF c.card_type = "list_answer" THEN _format_list_answer(c)
    ELSE IF c.card_type = "multiple_choice" THEN _format_multiple_choice(c)
    ELSE join(<<">", ">">>)

\* a variant in which formatting a card clears its parent
card_after_format_detached(c) == [c EXCEPT !.parent = None]

\* the card object once _format_card and the methods it calls have returned:
\* they read the card's attributes and assign none
card_after_format(c) == c

\* a variant of _format_card without the disabled check in front of the chain
_format_card_without_disabled_check(c) ==
    format_by_type(c, _escape_special_chars(c.front), _escape_special_chars(c.back))

_format_card(c) ==
    LET front == _escape_special_chars(c.front)
        back == _escape_special_chars(c.back)
    IN IF c.direction = "disabled"
       THEN front \o SP \o <<"=", "-">> \o SP \o back
       ELSE format_by_type(c, front, back)

\* the calls of _escape_special_chars made while formatting one card, each
\* adding EscapeCounted to stats.special_chars_escaped
EscapeCalls(c) ==
    LET fb == <<c.front, c.back>> IN
    IF c.direction = "disabled" THEN fb
    ELSE IF c.card_type = "multiline_concept" THEN
        IF c.use_triple_delimiter THEN fb \o <<c.front>> ELSE fb \o <<c.front, c.back>>
    ELSE IF c.card_type = "list_answer" THEN
        IF c.list_items # <<>> THEN fb \o <<c.front>> ELSE fb \o <<c.front, c.back>>
    ELSE IF c.card_type = "multiple_choice" THEN
        IF c.list_items # <<>> /\ Len(c.list_items) > 1
        THEN fb \o <<c.front>> ELSE fb \o <<c.front, c.back>>
    ELSE fb

(***************************************************************************)
(* RemNoteFormatter: a list of cards                                       *)
(***************************************************************************)
\* Python truthiness of card.parent (None and '' are falsy)
Truthy(p) == p # None /\ p # <<>>

\* FormattingStats()
FormattingStats ==
    [total_cards |-> 0, cards_by_type |-> <<>>, cards_by_direction |-> <<>>,
     hierarchical_levels |-> 0, special_chars_escaped |-> 0]

\* a variant of _reset_stats that keeps the statistics of the call before
_reset_stats_keeping(st) == st

\* _reset_stats: self.stats afterwards
_reset_stats(st) == FormattingStats

\* one element of output_lines: `indent` levels of four spaces, '# ', the
\* text; `card` is the index in the input list of the card the line renders
\* (0 for a line that renders no card)
Line(indent, t, i) == [indent |-> indent, text |-> t, card |-> i]

\* the indices of the list, in order
Indices(cs) == [i \in 1..Len(cs) |-> i]

\* root_cards, as indices
root_cards(cs) == SelectSeq(Indices(cs), LAMBDA i : ~Truthy(cs[i].parent))

\* hierarchy.get(key, []), as indices
hierarchy_get(cs, key) ==
    SelectSeq(Indices(cs), LAMBDA i : Truthy(cs[i].parent) /\ cs[i].parent = key)

\* the keys of the hierarchy dict in insertion order: the index of the first
\* card of each distinct parent
hierarchy_keys(cs) ==
    SelectSeq(Indices(cs), LAMBDA i : /\ Truthy(cs[i].parent)
                                      /\ \A j \in 1..(i - 1) : cs[j].parent # cs[i].parent)

\* the lines  '    # ' + _format_card(child)  for the given children
RECURSIVE ChildLines(_, _)
ChildLines(cs, children) ==
    IF children = <<>> THEN <<>>
    ELSE <<Line(1, _format_card(cs[Head(children)]), Head(children))>>
         \o ChildLines(cs, Tail(children))

\* the loop over root_cards: the card's line, then the children found by the
\* card's front and by its back
RECURSIVE RootLines(_, _)
RootLines(cs, roots) ==
    IF roots = <<>> THEN <<>>
    ELSE LET r == Head(roots)
             children == hierarchy_get(cs, cs[r].front) \o hierarchy_get(cs, cs[r].back)
         IN <<Line(0, _format_card(cs[r]), r)>>
            \o ChildLines(cs, children)
            \o RootLines(cs, Tail(roots))

\* the loop over hierarchy.items(): processed_parents starts empty and the
\* keys are distinct, so every parent gets a '# parent' line and its children
RECURSIVE RemainingLines(_, _)
RemainingLines(cs, keys) ==
    IF keys = <<>> THEN <<>>
    ELSE LET parent == cs[Head(keys)].parent
         IN <<Line(0, parent, 0)>>
            \o ChildLines(cs, hierarchy_get(cs, parent))
            \o RemainingLines(cs, Tail(keys))

_format_hierarchical(cs) ==
    RootLines(cs, root_cards(cs)) \o RemainingLines(cs, hierarchy_keys(cs))

\* " ".join(f"#{tag}" for tag in tags)
RECURSIVE TagsStr(_)
TagsStr(tags) ==
    IF tags = <<>> THEN <<>>
    ELSE IF Len(tags) = 1 THEN <<"#">> \o tags[1]
    ELSE <<"#">> \o tags[1] \o <<" ">> \o TagsStr(Tail(tags))

RECURSIVE FlatLines(_, _)
FlatLines(cs, i) ==
    IF i > Len(cs) THEN <<>>
    ELSE LET f == _format_card(cs[i])
             t == IF cs[i].tags # <<>> THEN f \o <<" ">> \o TagsStr(cs[i].tags) ELSE f
         IN <<Line(0, t, i)>> \o FlatLines(cs, i + 1)

_format_flat(cs) == FlatLines(cs, 1)

\* sum of EscapeCounted over a sequence of texts
RECURSIVE SumCounted(_)
SumCounted(ts) == IF ts = <<>> THEN 0 ELSE EscapeCounted(Head(ts)) + SumCounted(Tail(ts))

\* stats.special_chars_escaped after formatting: every line that renders a
\* card is one call of _format_card
RECURSIVE EscapedDuring(_, _)
EscapedDuring(cs, lines) ==
    IF lines = <<>> THEN 0
    ELSE (IF Head(lines).card = 0 THEN 0 ELSE SumCounted(EscapeCalls(cs[Head(lines).card])))
         + EscapedDuring(cs, Tail(lines))

\* dict(Counter(card.card_type.value for card in cards))
type_counter(cs) ==
    [k \in { cs[i].card_type : i \in 1..Len(cs) } |->
        Cardinality({ i \in 1..Len(cs) : cs[i].card_type = k })]

\* dict(Counter(card.direction.value for card in cards))
direction_counter(cs) ==
    [k \in { cs[i].direction : i \in 1..Len(cs) } |->
        Cardinality({ i \in 1..Len(cs) : cs[i].direction = k })]

_calculate_final_stats(cs, st) ==
    [st EXCEPT
       !.total_cards = Len(cs),
       !.cards_by_type = type_counter(cs),
       !.cards_by_direction = direction_counter(cs),
       !.hierarchical_levels =
           Cardinality({ cs[i].parent : i \in { j \in 1..Len(cs) : Truthy(cs[j].parent) } })]

(***************************************************************************)
(* More text primitives (Python str)                                       *)
(***************************************************************************)
Whitespace == {" ", "\n", "\t", "\r"}

RECURSIVE LStrip(_)
LStrip(s) == IF s # <<>> /\ Head(s) \in Whitespace THEN LStrip(Tail(s)) ELSE s

RECURSIVE RStrip(_)
RStrip(s) ==
    IF s # <<>> /\ s[Len(s)] \in Whitespace THEN RStrip(SubSeq(s, 1, Len(s) - 1)) ELSE s

\* s.strip()
Strip(s) == RStrip(LStrip(s))

\* s.find(t) + 1 for a t that occurs in s
FirstIndex(s, t) ==
    CHOOSE i \in 1..Len(s) : MatchAt(s, t, i) /\ \A j \in 1..(i - 1) : ~MatchAt(s, t, j)

\* s.split(sep, 1) for a sep that occurs in s
SplitOnce(s, sep) ==
    LET i == FirstIndex(s, sep)
    IN <<SubSeq(s, 1, i - 1), SubSeq(s, i + Len(sep), Len(s))>>

\* s.split('\n')
RECURSIVE SplitLines(_)
SplitLines(s) ==
    IF Contains(s, <<"\n">>)
    THEN LET parts == SplitOnce(s, <<"\n">>) IN <<parts[1]>> \o SplitLines(parts[2])
    ELSE <<s>>

\* xs[:n]
Take(xs, n) == SubSeq(xs, 1, IF Len(xs) < n THEN Len(xs) ELSE n)

(***************************************************************************)
(* CardGenerator: the kinds                                                *)
(***************************************************************************)
\* the keys of config['card_types'] in the order generate_cards handles them
Kinds == <<"concept", "basic", "cloze", "descriptor", "multiline", "list_answer",
           "multiple_choice">>

\* program constants: the defaults of prompt_config.get(...) and the thresholds
CONCEPT_SEPARATOR == <<":", ":">>
BASIC_SEPARATOR == <<">", ">">>
MAX_BASIC_CARDS == 3
MAX_CLOZE_CARDS == 2
MAX_DESCRIPTORS == 3
MULTILINE_THRESHOLD == 200
MIN_CHOICE_EXAMPLES == 3
MAX_CHOICES == 4

\* what a kind's generator hands back: the candidate cards, the increment of
\* llm_calls, whether self.llm.generate was invoked, whether an exception left it
KindResult(cs, calls, invoked, exc) ==
    [cards |-> cs, llm_calls |-> calls, invoked |-> invoked, exc |-> exc]

NoCards == KindResult(<<>>, 0, FALSE, FALSE)

\* a variant of _generate_concept_card without the try/except around the call
_generate_concept_card_without_except(cfg, topic, parent_context, llm) ==
    IF ~cfg["concept"] THEN NoCards
    ELSE IF llm.raises THEN KindResult(<<>>, 0, TRUE, TRUE)
    ELSE IF Contains(llm.response, CONCEPT_SEPARATOR)
    THEN LET parts == SplitOnce(llm.response, CONCEPT_SEPARATOR)
         IN KindResult(<<Flashcard("concept", Strip(parts[1]), Strip(parts[2]),
                                   parent_context, <<topic.name>>, topic.difficulty,
                                   "forward", <<>>, 0, FALSE)>>, 1, TRUE, FALSE)
    ELSE KindResult(<<>>, 1, TRUE, FALSE)

_generate_concept_card(cfg, topic, parent_context, llm) ==
    IF ~cfg["concept"] THEN NoCards
    ELSE IF llm.raises THEN KindResult(<<>>, 0, TRUE, FALSE)
    ELSE IF Contains(llm.response, CONCEPT_SEPARATOR)
    THEN LET parts == SplitOnce(llm.response, CONCEPT_SEPARATOR)
         IN KindResult(<<Flashcard("concept", Strip(parts[1]), Strip(parts[2]),
                                   parent_context, <<topic.name>>, topic.difficulty,
                                   "forward", <<>>, 0, FALSE)>>, 1, TRUE, FALSE)
    ELSE KindResult(<<>>, 1, TRUE, FALSE)

\* [line.strip() for line in response.split('\n') if separator in line]
StrippedLinesWith(response, separator) ==
    LET all == SplitLines(response)
        kept == SelectSeq(all, LAMBDA line : Contains(line, separator))
    IN [i \in 1..Len(kept) |-> Strip(kept[i])]

_generate_basic_cards(cfg, topic, parent_context, llm) ==
    IF ~cfg["basic"] THEN NoCards
    ELSE IF llm.raises THEN KindResult(<<>>, 0, TRUE, FALSE)
    ELSE LET lines == Take(StrippedLinesWith(llm.response, BASIC_SEPARATOR), MAX_BASIC_CARDS)
             card_of(line) ==
                 LET parts == SplitOnce(line, BASIC_SEPARATOR)
                 IN Flashcard("basic", Strip(parts[1]), Strip(parts[2]), parent_context,
                              <<topic.name>>, topic.difficulty, "forward", <<>>, 0, FALSE)
         IN KindResult([i \in 1..Len(lines) |-> card_of(lines[i])], 1, TRUE, FALSE)

\* [line.strip() for line in response.split('\n') if '{{' in line and '}}' in line]
ClozeLines(response) ==
    LET all == SplitLines(response)
        kept == SelectSeq(all, LAMBDA line : /\ Contains(line, <<"{", "{">>)
                                            /\ Contains(line, <<"}", "}">>))
    IN [i \in 1..Len(kept) |-> Strip(kept[i])]

_generate_cloze_cards(cfg, topic, parent_context, llm) ==
    IF ~cfg["cloze"] THEN NoCards
    ELSE IF llm.raises THEN KindResult(<<>>, 0, TRUE, FALSE)
    ELSE LET lines == Take(ClozeLines(llm.response), MAX_CLOZE_CARDS)
         IN KindResult([i \in 1..Len(lines) |->
                           Flashcard("cloze", lines[i], <<>>, parent_context, <<topic.name>>,
                                     topic.difficulty, "forward", <<>>, 0, FALSE)],
                       1, TRUE, FALSE)

KEY_CONCEPT_OF == <<"K", "e", "y", " ", "c", "o", "n", "c", "e", "p", "t", " ", "o", "f", " ">>
KEY_CONCEPT_TAG == <<"key_concept">>

_generate_descriptor_cards(cfg, topic, parent_context) ==
    IF ~cfg["descriptor"] THEN NoCards
    ELSE LET concepts == Take(topic.key_concepts, MAX_DESCRIPTORS)
         IN KindResult([i \in 1..Len(concepts) |->
                           Flashcard("descriptor", concepts[i], KEY_CONCEPT_OF \o topic.name,
                                     topic.name, <<topic.name, KEY_CONCEPT_TAG>>,
                                     topic.difficulty, "bidirectional", <<>>, 0, FALSE)],
                       0, FALSE, FALSE)

MULTILINE_TAG == <<"multiline">>

\* a variant of _generate_multiline_cards whose threshold test is >=
_generate_multiline_cards_at_threshold(topic, parent_context) ==
    IF Len(topic.content) >= MULTILINE_THRESHOLD
    THEN KindResult(<<Flashcard("multiline_concept", topic.name, topic.content,
                                parent_context, <<topic.name, MULTILINE_TAG>>,
                                "intermediate", "forward", <<>>, 0, FALSE)>>, 0, FALSE, FALSE)
    ELSE NoCards

_generate_multiline_cards(topic, parent_context) ==
    IF Len(topic.content) > MULTILINE_THRESHOLD
    THEN KindResult(<<Flashcard("multiline_concept", topic.name, topic.content,
                                parent_context, <<topic.name, MULTILINE_TAG>>,
                                "intermediate", "forward", <<>>, 0, FALSE)>>, 0, FALSE, FALSE)
    ELSE NoCards

KEY_CONCEPTS_QUESTION == <<"W", "h", "a", "t", " ", "a", "r", "e", " ", "t", "h", "e", " ", "k", "e", "y", " ", "c", "o", "n", "c", "e", "p", "t", "s", " ", "o", "f", " ">>
LIST_TAG == <<"list">>

\* a variant of _generate_list_answer_cards that is content with one key concept
_generate_list_answer_cards_for_one(topic, parent_context) ==
    IF topic.key_concepts # <<>>
    THEN KindResult(<<Flashcard("list_answer", KEY_CONCEPTS_QUESTION \o topic.name \o <<"?">>,
                                <<>>, parent_context, <<topic.name, LIST_TAG>>,
                                "intermediate", "forward", topic.key_concepts, 0, FALSE)>>,
                    0, FALSE, FALSE)
    ELSE NoCards

_generate_list_answer_cards(topic, parent_context) ==
    IF topic.key_concepts # <<>> /\ Len(topic.key_concepts) > 1
    THEN KindResult(<<Flashcard("list_answer", KEY_CONCEPTS_QUESTION \o topic.name \o <<"?">>,
                                <<>>, parent_context, <<topic.name, LIST_TAG>>,
                                "intermediate", "forward", topic.key_concepts, 0, FALSE)>>,
                    0, FALSE, FALSE)
    ELSE NoCards

EXAMPLE_QUESTION == <<"W", "h", "i", "c", "h", " ", "i", "s", " ", "a", "n", " ", "e", "x", "a", "m", "p", "l", "e", " ", "o", "f", " ">>
MULTIPLE_CHOICE_TAG == <<"multiple_choice">>

\* a variant of _generate_multiple_choice_cards that does not limit the choices
_generate_multiple_choice_cards_unlimited(topic, parent_context) ==
    IF topic.examples # <<>> /\ Len(topic.examples) >= MIN_CHOICE_EXAMPLES
    THEN KindResult(<<Flashcard("multiple_choice", EXAMPLE_QUESTION \o topic.name \o <<"?">>,
                                <<>>, parent_context, <<topic.name, MULTIPLE_CHOICE_TAG>>,
                                "intermediate", "forward", topic.examples,
                                0, FALSE)>>, 0, FALSE, FALSE)
    ELSE NoCards

_generate_multiple_choice_cards(topic, parent_context) ==
    IF topic.examples # <<>> /\ Len(topic.examples) >= MIN_CHOICE_EXAMPLES
    THEN KindResult(<<Flashcard("multiple_choice", EXAMPLE_QUESTION \o topic.name \o <<"?">>,
                                <<>>, parent_context, <<topic.name, MULTIPLE_CHOICE_TAG>>,
                                "intermediate", "forward", Take(topic.examples, MAX_CHOICES),
                                0, FALSE)>>, 0, FALSE, FALSE)
    ELSE NoCards

(***************************************************************************)
(* CardGenerator: the duplicate filter and generate_cards                  *)
(***************************************************************************)
\* a variant of _is_unique_card that does not count the duplicate
_is_unique_card_without_count(c, gc, gs) ==
    [unique |-> c.source_hash \notin gc, stats |-> gs, generated_cards |-> gc, card |-> c]

\* _is_unique_card: the returned flag, and generation_stats, generated_cards
\* and the card object afterwards
_is_unique_card(c, gc, gs) ==
    IF c.source_hash \in gc
    THEN [unique |-> FALSE, stats |-> [gs EXCEPT !.duplicates_avoided = @ + 1],
          generated_cards |-> gc, card |-> c]
    ELSE [unique |-> TRUE, stats |-> gs, generated_cards |-> gc, card |-> c]

\* a variant of _register_card that forgets the fingerprint
_register_card_without_add(c, gc, gs) ==
    [generated_cards |-> gc, stats |-> [gs EXCEPT !.total_cards = @ + 1], card |-> c]

\* _register_card: generated_cards, generation_stats and the card object afterwards
_register_card(c, gc, gs) ==
    [generated_cards |-> gc \cup {c.source_hash},
     stats |-> [gs EXCEPT !.total_cards = @ + 1], card |-> c]

\* generation_stats as __init__ and reset_stats set it
InitialStats ==
    [total_cards |-> 0, by_type |-> [t \in CardType |-> 0], duplicates_avoided |-> 0,
     topics_processed |-> 0, llm_calls |-> 0]

\* the loop  for card in xs: if self._is_unique_card(card): cards.append(card);
\* self._register_card(card)   over acc = [cards, generated_cards, stats]
RECURSIVE filter_cards(_, _)
filter_cards(xs, acc) ==
    IF xs = <<>> THEN acc
    ELSE LET c == Head(xs)
             u == _is_unique_card(c, acc.generated_cards, acc.stats)
         IN IF u.unique
            THEN LET r == _register_card(u.card, u.generated_cards, u.stats)
                 IN filter_cards(Tail(xs), [cards |-> Append(acc.cards, r.card),
                                            generated_cards |-> r.generated_cards,
                                            stats |-> r.stats])
            ELSE filter_cards(Tail(xs), [acc EXCEPT !.stats = u.stats,
                                                    !.generated_cards = u.generated_cards])

\* the by_type key a kind's generator increments
TypeOfKind(kind) == IF kind = "multiline" THEN "multiline_concept" ELSE kind

\* a variant of kind_cards that asks for cloze cards whatever the topic holds
kind_cards_without_cloze_guard(cfg, topic, parent_context, kind, llms) ==
    IF kind = "concept" THEN _generate_concept_card(cfg, topic, parent_context, llms.concept)
    ELSE IF kind = "basic" THEN _generate_basic_cards(cfg, topic, parent_context, llms.basic)
    ELSE IF kind = "cloze" THEN _generate_cloze_cards(cfg, topic, parent_context, llms.cloze)
    ELSE IF kind = "descriptor" THEN
        IF cfg["descriptor"] THEN _generate_descriptor_cards(cfg, topic, parent_context)
        ELSE NoCards
    ELSE IF kind = "multiline" THEN
        IF cfg["multiline"] THEN _generate_multiline_cards(topic, parent_context) ELSE NoCards
    ELSE IF kind = "list_answer" THEN
        IF cfg["list_answer"] THEN _generate_list_answer_cards(topic, parent_context)
        ELSE NoCards
    ELSE IF cfg["multiple_choice"] THEN _generate_multiple_choice_cards(topic, parent_context)
    ELSE NoCards

\* what generate_cards obtains for one kind of one topic: the guards of
\* generate_cards around the generator, then the generator
kind_cards(cfg, topic, parent_context, kind, llms) ==
    IF kind = "concept" THEN _generate_concept_card(cfg, topic, parent_context, llms.concept)
    ELSE IF kind = "basic" THEN _generate_basic_cards(cfg, topic, parent_context, llms.basic)
    ELSE IF kind = "cloze" THEN
        IF topic.key_concepts # <<>> \/ topic.examples # <<>>
        THEN _generate_cloze_cards(cfg, topic, parent_context, llms.cloze)
        ELSE NoCards
    ELSE IF kind = "descriptor" THEN
        IF cfg["descriptor"] THEN _generate_descriptor_cards(cfg, topic, parent_context)
        ELSE NoCards
    ELSE IF kind = "multiline" THEN
        IF cfg["multiline"] THEN _generate_multiline_cards(topic, parent_context) ELSE NoCards
    ELSE IF kind = "list_answer" THEN
        IF cfg["list_answer"] THEN _generate_list_answer_cards(topic, parent_context)
        ELSE NoCards
    ELSE IF cfg["multiple_choice"] THEN _generate_multiple_choice_cards(topic, parent_context)
    ELSE NoCards

\* the fingerprints of a list of cards
HashesOf(cs) == [i \in 1..Len(cs) |-> cs[i].source_hash]

\* generate_cards for one topic, from kind number k on, up to the subtopic
\* loop.  acc = [cards, generated_cards, stats, submitted, candidates, log, exc];
\* an exception that leaves a generator ends the walk (exc)
RECURSIVE generate_kinds(_, _, _, _, _, _, _)
generate_kinds(cfg, topic, path, parent_context, llms, k, acc) ==
    IF k > Len(Kinds) \/ acc.exc THEN acc
    ELSE LET kind == Kinds[k]
             res == kind_cards(cfg, topic, parent_context, kind, llms)
             entry == [path |-> path, kind |-> kind, invoked |-> res.invoked,
                       failed |-> res.invoked /\ kind \in DOMAIN llms /\ llms[kind].raises,
                       produced |-> Len(res.cards), cards |-> res.cards]
             counted == [acc.stats EXCEPT
                           !.by_type[TypeOfKind(kind)] = @ + Len(res.cards),
                           !.llm_calls = @ + res.llm_calls]
             f == filter_cards(res.cards, [cards |-> acc.cards,
                                           generated_cards |-> acc.generated_cards,
                                           stats |-> counted])
         IN IF res.exc
            THEN [acc EXCEPT !.exc = TRUE, !.log = Append(@, entry)]
            ELSE generate_kinds(cfg, topic, path, parent_context, llms, k + 1,
                    [cards |-> f.cards, generated_cards |-> f.generated_cards,
                     stats |-> f.stats,
                     submitted |-> acc.submitted \cup { res.cards[i].source_hash : i \in 1..Len(res.cards) },
                     candidates |-> acc.candidates + Len(res.cards),
                     log |-> Append(acc.log, entry), exc |-> FALSE])

(***************************************************************************)
(* Topics                                                                  *)
(***************************************************************************)
Topic(name, content, subtopics, examples, key_concepts) ==
    [name |-> name, content |-> content, subtopics |-> subtopics, examples |-> examples,
     key_concepts |-> key_concepts, difficulty |-> "intermediate"]

\* a content of n characters
ContentOf(n) == [i \in 1..n |-> "x"]

tA == <<"A">>
tB == <<"B">>
tC == <<"C">>
tY == <<"Y">>

\* the content trees handed to generate_cards
Trees == <<
    Topic(tA, ContentOf(201), <<>>, << <<"e", "1">>, <<"e", "2">>, <<"e", "3">> >>,
          << <<"k", "1">>, <<"k", "2">> >>),
    Topic(tB, ContentOf(200),
          << Topic(tC, ContentOf(10), <<>>, <<>>, <<>>) >>,
          <<>>, << <<"k", "1">> >>),
    Topic(tA, ContentOf(10),
          << Topic(tA, ContentOf(10), <<>>,
                   << <<"e", "1">>, <<"e", "2">>, <<"e", "3">>, <<"e", "4">>, <<"e", "5">> >>,
                   <<>>),
             Topic(tB, ContentOf(10), <<>>, <<>>,
                   << <<"k", "1">>, <<"k", "2">>, <<"k", "3">>, <<"k", "4">> >>) >>,
          <<>>, <<>>),
    Topic(tA, ContentOf(10),
          << Topic(tB, ContentOf(10),
                   << Topic(tC, ContentOf(10), <<>>, << <<"e", "1">> >>, <<>>) >>,
                   <<>>, <<>>) >>,
          << <<"e", "1">>, <<"e", "2">> >>, <<>>) >>

\* the topic reached from topic t along the subtopic indices of path
RECURSIVE TopicAt(_, _)
TopicAt(t, path) == IF path = <<>> THEN t ELSE TopicAt(t.subtopics[Head(path)], Tail(path))

RECURSIVE SumSizes(_)
TreeSize(t) == 1 + SumSizes(t.subtopics)
SumSizes(ts) == IF ts = <<>> THEN 0 ELSE TreeSize(Head(ts)) + SumSizes(Tail(ts))

\* the configurations of card_types
AllKinds == { Kinds[i] : i \in 1..Len(Kinds) }
LlmKinds == {"concept", "basic", "cloze"}
Configs == { [k \in AllKinds |-> TRUE],
             [k \in AllKinds |-> k \in LlmKinds],
             [k \in AllKinds |-> k \notin LlmKinds] }

\* what self.llm.generate does on one call: raise, or return a response
Raises == [raises |-> TRUE, response |-> <<>>]
Returns(r) == [raises |-> FALSE, response |-> r]

ConceptOutcomes(topic) ==
    { Raises, Returns(topic.name \o <<" ", ":", ":", " ", "x">>), Returns(<<"x">>) }

BasicOutcomes(topic) ==
    { Raises,
      Returns(<<"q", " ", ">", ">", " ", "a", "\n", "q", " ", ">", ">", " ", "a", "\n">>
              \o topic.name \o <<">", ">", "b", "\n", "z", ">", ">", "z", "\n", "n">>) }

ClozeOutcomes(topic) ==
    { Raises,
      Returns(<<"{", "{", "a", "}", "}", " ">> \o topic.name
              \o <<"\n", "p", "\n", "}", "}", "b", "{", "{", "\n", "{", "{", "c", "}", "}">>) }

(***************************************************************************)
(* The values of the variables of an operation that is not under way       *)
(***************************************************************************)
NoCard == [card_type |-> "none"]

EscIdle == /\ text = <<>> /\ escaped_text = <<>> /\ escape_done = FALSE
CardIdle == /\ card = NoCard /\ formatted = <<>> /\ format_done = FALSE
HashIdle == /\ card_a = NoCard /\ card_b = NoCard
FmtIdle ==
    /\ cards = <<>> /\ cards_after = <<>> /\ hierarchy = FALSE /\ output_lines = <<>>
    /\ stats = FormattingStats /\ format_calls = 0
GenIdle ==
    /\ config = [k \in AllKinds |-> TRUE]
    /\ generated_cards = {} /\ generation_stats = InitialStats
    /\ stack = <<>> /\ result = <<>> /\ result_origins = <<>> /\ raised = FALSE
    /\ returned = <<>> /\ submitted = {} /\ candidates = 0 /\ kind_log = <<>>
    /\ calls_made = 0 /\ topics_started = 0
RetryIdle ==
    /\ retry_attempts = 0 /\ retry_delay = 0 /\ attempt = 0 /\ retry_status = "idle"
    /\ retry_value = None /\ delays = <<>> /\ outcomes = <<>>
MainIdle ==
    /\ content_topics = <<>> /\ topic_i = 0 /\ sub_j = 0 /\ main_pc = "idle" /\ all_cards = <<>>

(***************************************************************************)
(* Inputs of the escaper                                                   *)
(***************************************************************************)
Pieces == { <<":">>, <<">">>, <<"<">>, <<";">>, <<"{", "{">>, <<"}", "}">>,
            <<"a">>, <<"]">>, <<"#", "[", "[">> }

RECURSIVE TextsUpTo(_)
TextsUpTo(n) ==
    IF n = 0 THEN { <<>> }
    ELSE LET shorter == TextsUpTo(n - 1)
         IN shorter \cup { t \o p : t \in shorter, p \in Pieces }

(***************************************************************************)
(* Inputs of the card formatter                                            *)
(***************************************************************************)
CardTexts == { <<>>, <<"a">>, <<"b", ":", ":">>, <<":", "<">>,
               <<"{", "{", "a", "}", "}">>, <<"a", "{", "{">>,
               <<"{", "{", "a", "}", "}", ":", ":">> }

ItemLists == { <<>>, << <<"a">> >>, << <<"a">>, <<">", ">">> >> }

\* multiple-choice cards whose correct choice is not the first item
ChoiceInputs ==
    { Flashcard("multiple_choice", f, <<>>, None, <<>>, "intermediate", "forward",
                << <<"a">>, <<">", ">">>, <<"c">> >>, i, FALSE) :
        f \in CardTexts, i \in {1, 2} }

CardInputs ==
    { Flashcard(t, f, b, None, <<>>, "intermediate", d, li, 0, u) :
        t \in CardType, f \in CardTexts, b \in CardTexts, d \in CardDirection,
        li \in ItemLists, u \in BOOLEAN }
    \cup ChoiceInputs

(***************************************************************************)
(* Specification of the escaper                                            *)
(***************************************************************************)
EscInit ==
    /\ text \in TextsUpTo(MaxPieces)
    /\ escaped_text = <<>>
    /\ escape_done = FALSE
    /\ CardIdle /\ HashIdle /\ FmtIdle /\ GenIdle /\ RetryIdle /\ MainIdle

EscapeText ==
    /\ ~escape_done
    /\ escaped_text' = _escape_special_chars(text)
    /\ escape_done' = TRUE
    /\ UNCHANGED <<text, notEsc>>

EscNext == EscapeText

SpecEscape == EscInit /\ [][EscNext]_vars

(***************************************************************************)
(* Specification of the card formatter                                     *)
(***************************************************************************)
CardInit ==
    /\ card \in CardInputs
    /\ formatted = <<>>
    /\ format_done = FALSE
    /\ EscIdle /\ HashIdle /\ FmtIdle /\ GenIdle /\ RetryIdle /\ MainIdle

FormatCard ==
    /\ ~format_done
    /\ formatted' = _format_card(card)
    /\ format_done' = TRUE
    /\ UNCHANGED <<card, notCard>>

CardNext == FormatCard

SpecCard == CardInit /\ [][CardNext]_vars

(***************************************************************************)
(* Specification of format_cards                                           *)
(***************************************************************************)

\* front, back, type, direction and tags of the cards handed to format_cards
CardShapes ==
    { [front |-> tA, back |-> <<"b", ":", ":">>, card_type |-> "concept",
       direction |-> "forward", tags |-> << <<"t">> >>],
      [front |-> tB, back |-> tY, card_type |-> "basic",
       direction |-> "backward", tags |-> <<>>],
      [front |-> tY, back |-> tY, card_type |-> "descriptor",
       direction |-> "bidirectional", tags |-> <<>>] }

CardParents == { None, tA, tB, tY }

FormatInputs ==
    { Flashcard(sh.card_type, sh.front, sh.back, p, sh.tags, "intermediate",
                sh.direction, <<>>, 0, FALSE) : sh \in CardShapes, p \in CardParents }

RECURSIVE ListsUpTo(_, _)
ListsUpTo(S, n) ==
    IF n = 0 THEN { <<>> }
    ELSE LET shorter == ListsUpTo(S, n - 1)
         IN shorter \cup { Append(l, x) : l \in shorter, x \in S }

\* the lists of a later call on the same formatter
LaterLists ==
    { l \in ListsUpTo(FormatInputs, 1) : \A i \in 1..Len(l) : l[i].parent \in {None, tB} }

\* a list of one card whose front and back both hold a delimiter token
TokenLists ==
    { << Flashcard("concept", <<"a", ":", ":">>, <<"b", ":", ":">>, None, <<>>,
                   "intermediate", "forward", <<>>, 0, FALSE) >> }

FmtInit == FmtIdle /\ EscIdle /\ CardIdle /\ HashIdle /\ GenIdle /\ RetryIdle /\ MainIdle

format_cards(cs, h) ==
    /\ cards' = cs
    /\ cards_after' = [i \in 1..Len(cs) |-> card_after_format(cs[i])]
    /\ hierarchy' = h
    /\ format_calls' = format_calls + 1
    /\ IF cs = <<>>
       THEN /\ output_lines' = <<>>
            /\ stats' = _reset_stats(stats)
       ELSE LET lines == IF h THEN _format_hierarchical(cs) ELSE _format_flat(cs)
                counted == [_reset_stats(stats) EXCEPT
                              !.special_chars_escaped = @ + EscapedDuring(cs, lines)]
            IN /\ output_lines' = lines
               /\ stats' = _calculate_final_stats(cs, counted)
    /\ UNCHANGED notFmt

FormatCards ==
    /\ format_calls = 0
    /\ \E cs \in ListsUpTo(FormatInputs, MaxCards) \cup TokenLists, h \in BOOLEAN :
          format_cards(cs, h)

FormatCardsAgain ==
    /\ format_calls >= 1
    /\ format_calls < MaxFormatCalls
    /\ \E cs \in LaterLists, h \in BOOLEAN : format_cards(cs, h)

FmtNext == FormatCards \/ FormatCardsAgain

SpecFormat == FmtInit /\ [][FmtNext]_vars

(***************************************************************************)
(* Specification of the CardGenerator                                      *)
(***************************************************************************)
\* one active generate_cards call: the topic (tree and path), parent_context,
\* where the call stands, and its local list `cards`
Frame(tree, path, parent_context) ==
    [tree |-> tree, path |-> path, parent_context |-> parent_context,
     phase |-> "kinds", cards |-> <<>>, origins |-> <<>>, next_sub |-> 1]

Top == stack[Len(stack)]
TopTopic == TopicAt(Trees[Top.tree], Top.path)

GenInit ==
    /\ config \in Configs
    /\ generated_cards = {} /\ generation_stats = InitialStats
    /\ stack = <<>> /\ result = <<>> /\ result_origins = <<>> /\ raised = FALSE
    /\ returned = <<>> /\ submitted = {} /\ candidates = 0 /\ kind_log = <<>>
    /\ calls_made = 0 /\ topics_started = 0
    /\ EscIdle /\ CardIdle /\ HashIdle /\ FmtIdle /\ RetryIdle /\ MainIdle

\* a client calls generator.generate_cards(topic) on a content tree
GenerateCards ==
    /\ stack = <<>>
    /\ ~raised
    /\ calls_made < MaxCalls
    /\ \E t \in 1..Len(Trees) :
        /\ topics_started + TreeSize(Trees[t]) <= MaxTopics
        /\ stack' = <<Frame(t, <<>>, None)>>
        /\ topics_started' = topics_started + TreeSize(Trees[t])
    /\ calls_made' = calls_made + 1
    /\ kind_log' = <<>>
    /\ UNCHANGED <<config, generated_cards, generation_stats, result, result_origins, raised,
                   returned, submitted, candidates, notGen>>

\* generate_cards, lines 156-207: the seven kinds of the topic of the innermost call
ProcessTopic ==
    /\ stack # <<>>
    /\ Top.phase = "kinds"
    /\ \E oc \in ConceptOutcomes(TopTopic), ob \in BasicOutcomes(TopTopic),
          ok \in ClozeOutcomes(TopTopic) :
        \E acc \in { generate_kinds(config, TopTopic, <<Top.tree>> \o Top.path,
                         Top.parent_context,
                         [concept |-> oc, basic |-> ob, cloze |-> ok], 1,
                         [cards |-> Top.cards, generated_cards |-> generated_cards,
                          stats |-> generation_stats, submitted |-> submitted,
                          candidates |-> candidates, log |-> kind_log, exc |-> FALSE]) } :
           /\ generated_cards' = acc.generated_cards
           /\ generation_stats' = acc.stats
           /\ submitted' = acc.submitted
           /\ candidates' = acc.candidates
           /\ kind_log' = acc.log
           /\ IF acc.exc
              THEN /\ stack' = <<>>
                   /\ raised' = TRUE
              ELSE /\ stack' = [stack EXCEPT ![Len(stack)] =
                                   [@ EXCEPT !.cards = acc.cards,
                                             !.origins = [i \in 1..Len(acc.cards) |->
                                                            [path |-> Top.path,
                                                             parent_context |-> Top.parent_context]],
                                             !.phase = "subtopics"]]
                   /\ raised' = raised
    /\ UNCHANGED <<config, result, result_origins, returned, calls_made, topics_started, notGen>>

\* generate_cards, lines 210-211: the recursive call for the next subtopic
Descend ==
    /\ stack # <<>>
    /\ Top.phase = "subtopics"
    /\ Top.next_sub <= Len(TopTopic.subtopics)
    /\ stack' = Append(stack, Frame(Top.tree, Append(Top.path, Top.next_sub), TopTopic.name))
    /\ UNCHANGED <<config, generated_cards, generation_stats, result, result_origins, raised,
                   returned, submitted, candidates, kind_log, calls_made, topics_started, notGen>>

\* a variant of cards.extend(subtopic_cards) that puts the subtopic's cards first
extend_in_front(xs, ys) == ys \o xs

\* cards.extend(subtopic_cards)
extend(xs, ys) == xs \o ys

\* generate_cards, lines 212-221: the subtopic loop is over; the call counts
\* the topic and returns its cards, which the caller extends its list with
ReturnCards ==
    /\ stack # <<>>
    /\ Top.phase = "subtopics"
    /\ Top.next_sub > Len(TopTopic.subtopics)
    /\ generation_stats' = [generation_stats EXCEPT !.topics_processed = @ + 1]
    /\ IF Len(stack) = 1
       THEN /\ stack' = <<>>
            /\ result' = Top.cards
            /\ result_origins' = Top.origins
            /\ returned' = returned \o HashesOf(Top.cards)
       ELSE /\ stack' = [SubSeq(stack, 1, Len(stack) - 1) EXCEPT ![Len(stack) - 1] =
                            [@ EXCEPT !.cards = extend(@, Top.cards),
                                      !.origins = extend(@, Top.origins),
                                      !.next_sub = @ + 1]]
            /\ UNCHANGED <<result, result_origins, returned>>
    /\ UNCHANGED <<config, generated_cards, raised, submitted, candidates, kind_log,
                   calls_made, topics_started, notGen>>

\* a variant of the assignment in reset_stats that leaves by_type as it is
stats_after_reset_keeping_by_type(gs) == [InitialStats EXCEPT !.by_type = gs.by_type]

\* generation_stats as reset_stats assigns it
stats_after_reset(gs) == InitialStats

\* CardGenerator.reset_stats
reset_stats ==
    /\ stack = <<>>
    /\ generated_cards' = {}
    /\ generation_stats' = stats_after_reset(generation_stats)
    /\ returned' = <<>>
    /\ submitted' = {}
    /\ candidates' = 0
    /\ UNCHANGED <<config, stack, result, result_origins, raised, kind_log, calls_made,
                   topics_started, notGen>>

GenNext == GenerateCards \/ ProcessTopic \/ Descend \/ ReturnCards \/ reset_stats

SpecGen == GenInit /\ [][GenNext]_vars

(***************************************************************************)
(* Specification of the fingerprint: two cards are constructed             *)
(***************************************************************************)
HashFronts == { <<"a">>, <<"a", "|", "|", "b">> }
HashBacks == { <<"c">>, <<"b", "|", "|", "c">> }
HashTypes == { "concept", "list_answer" }
HashDirections == { "forward", "bidirectional" }
HashItemLists == { <<>>, << <<"x", ",", "y">> >>, << <<"x">>, <<"y">> >> }

\* the fields that the fingerprint is not meant to depend on
OtherFields ==
    { [parent |-> None, tags |-> <<>>, difficulty |-> "intermediate", correct_choice_index |-> 0],
      [parent |-> <<"a">>, tags |-> << <<"t">> >>, difficulty |-> "advanced", correct_choice_index |-> 1],
      [parent |-> <<"a">>, tags |-> <<>>, difficulty |-> "intermediate", correct_choice_index |-> 1] }

HashInputs ==
    { Flashcard(t, f, b, o.parent, o.tags, o.difficulty, d, li, o.correct_choice_index, FALSE) :
        t \in HashTypes, f \in HashFronts, b \in HashBacks, d \in HashDirections,
        li \in HashItemLists, o \in OtherFields }

HashInit == HashIdle /\ EscIdle /\ CardIdle /\ FmtIdle /\ GenIdle /\ RetryIdle /\ MainIdle

ConstructFirst ==
    /\ card_a = NoCard
    /\ card_a' \in HashInputs
    /\ UNCHANGED <<card_b, notHash>>

ConstructSecond ==
    /\ card_a # NoCard
    /\ card_b = NoCard
    /\ card_b' \in HashInputs
    /\ UNCHANGED <<card_a, notHash>>

HashNext == ConstructFirst \/ ConstructSecond

SpecHash == HashInit /\ [][HashNext]_vars

(***************************************************************************)
(* Properties of the escaper                                               *)
(***************************************************************************)
\* the tokens the escaping-safety property names
DelimTokens == { <<":", ":">>, <<">", ">">>, <<"<", "<">>, <<";", ";">>, <<"<", ">">> }

\* positions i..j of s lie inside some match of the cloze pattern
InClozeSpan(s, i, j) ==
    \E a \in 1..Len(s), b \in 1..Len(s) :
        ClozeMatch(s, a, b) /\ a <= i /\ j <= b + 1

NoBareToken(s) ==
    \A tok \in DelimTokens : \A i \in 1..Len(s) :
        MatchAt(s, tok, i) => InClozeSpan(s, i, i + Len(tok) - 1)

\* C1 (escaping safety): the text returned by _escape_special_chars holds
\* none of the tokens '::', '>>', '<<', ';;', '<>' outside a validated
\* {{...}} span, whatever the input text.
C1_EscapingSafety == escape_done => NoBareToken(escaped_text)

(***************************************************************************)
(* Properties of the card formatter                                        *)
(***************************************************************************)
\* the type/direction -> delimiter table of the specification
DelimiterTable ==
    [concept    |-> [forward |-> <<":", ">">>, backward |-> <<":", "<">>, bidirectional |-> <<":", ":">>],
     basic      |-> [forward |-> <<">", ">">>, backward |-> <<"<", "<">>, bidirectional |-> <<"<", ">">>],
     descriptor |-> [forward |-> <<";", ">">>, backward |-> <<";", "<">>, bidirectional |-> <<";", ";">>]]

FrontDelimBack(c, d) ==
    _escape_special_chars(c.front) \o <<" ">> \o d \o <<" ">> \o _escape_special_chars(c.back)

\* C4 (delimiter table): a concept, basic or descriptor card with direction
\* forward, backward or bidirectional is emitted as 'front <d> back' with d
\* taken from the table by (type, direction) alone, whatever front and back hold.
C4_DelimiterTable ==
    (/\ format_done
     /\ card.card_type \in {"concept", "basic", "descriptor"}
     /\ card.direction \in {"forward", "backward", "bidirectional"})
    => formatted = FrontDelimBack(card, DelimiterTable[card.card_type][card.direction])

C4_Witness ==
    /\ format_done
    /\ card.card_type = "descriptor"
    /\ card.direction = "forward"
    /\ card.front = <<":", "<">>
    /\ card.back = <<"b", ":", ":">>

SameDefiningFields(x, y) ==
    /\ x.front = y.front
    /\ x.back = y.back
    /\ x.card_type = y.card_type
    /\ x.direction = y.direction
    /\ x.list_items = y.list_items

\* C10 (fingerprint equality): two cards constructed with the same front,
\* back, type, direction and list_items have the same source_hash, whatever
\* their parent, tags, difficulty and correct_choice_index.
C10_FingerprintEquality ==
    (card_a # NoCard /\ card_b # NoCard /\ SameDefiningFields(card_a, card_b))
    => card_a.source_hash = card_b.source_hash

C10_Witness ==
    /\ card_a # NoCard /\ card_b # NoCard
    /\ SameDefiningFields(card_a, card_b)
    /\ card_a.list_items # <<>>
    /\ card_a.parent # card_b.parent
    /\ card_a.tags # card_b.tags
    /\ card_a.difficulty # card_b.difficulty
    /\ card_a.correct_choice_index # card_b.correct_choice_index

(***************************************************************************)
(* Properties of the hierarchy grouping                                    *)
(***************************************************************************)
Formatted == format_calls > 0

\* the output lines that render card i
LinesOf(i) == { k \in 1..Len(output_lines) : output_lines[k].card = i }

\* the line a line is nested beneath: the nearest earlier line of a smaller
\* indentation (0 when there is none)
Owner(k) ==
    LET above == { j \in 1..(k - 1) : output_lines[j].indent < output_lines[k].indent }
    IN IF above = {} THEN 0 ELSE CHOOSE j \in above : \A m \in above : m <= j

\* card j carries the text P as its front or as its back
Matches(j, P) == cards[j].front = P \/ cards[j].back = P

IsRoot(i) == ~Truthy(cards[i].parent)

\* among the cards other than i, exactly card j carries the parent string of i
OnlyMatch(i, j) ==
    \A m \in 1..Len(cards) : (m # i /\ Matches(m, cards[i].parent)) <=> m = j

\* r, c, g form a parent chain root -> child -> grandchild, each parent
\* string being carried by one card only
IsChain(r, c, g) ==
    /\ r # c /\ c # g /\ r # g
    /\ IsRoot(r)
    /\ ~IsRoot(c) /\ OnlyMatch(c, r)
    /\ ~IsRoot(g) /\ OnlyMatch(g, c)

\* C6 (hierarchy depth): with hierarchy=True, on a 3-level parent chain the
\* child's line is indented strictly deeper than the root's line and the
\* grandchild's line strictly deeper than the child's.
C6_HierarchyDepth ==
    (Formatted /\ hierarchy) =>
        \A r, c, g \in 1..Len(cards) :
            IsChain(r, c, g) =>
                \E kr \in LinesOf(r), kc \in LinesOf(c), kg \in LinesOf(g) :
                    /\ output_lines[kr].indent < output_lines[kc].indent
                    /\ output_lines[kc].indent < output_lines[kg].indent

\* the root cards that carry the parent string of card i
RootMatchers(i) == { j \in 1..Len(cards) : j # i /\ IsRoot(j) /\ Matches(j, cards[i].parent) }

\* C7 (parent attachment): with hierarchy=True, a card whose parent string is
\* the front or back of a root card is emitted beneath the first such card,
\* one level deeper, and beneath that card only (once).
C7_ParentAttachment ==
    (Formatted /\ hierarchy) =>
        \A i \in 1..Len(cards) :
            (~IsRoot(i) /\ RootMatchers(i) # {}) =>
                LET first == CHOOSE j \in RootMatchers(i) : \A m \in RootMatchers(i) : j <= m
                IN /\ Cardinality(LinesOf(i)) = 1
                   /\ \A k \in LinesOf(i) :
                        /\ Owner(k) # 0
                        /\ output_lines[Owner(k)].card = first
                        /\ output_lines[k].indent = output_lines[Owner(k)].indent + 1

\* the cards that are roots or are attached, directly or not, to a root
RECURSIVE PlacedFrom(_, _)
PlacedFrom(S, n) ==
    IF n = 0 THEN S
    ELSE PlacedFrom(S \cup { i \in 1..Len(cards) :
                                /\ ~IsRoot(i)
                                /\ \E j \in S : j # i /\ Matches(j, cards[i].parent) },
                    n - 1)

Placed == PlacedFrom({ i \in 1..Len(cards) : IsRoot(i) }, Len(cards))

\* card i has a line nested beneath a line that renders no card
InUnmatchedGroup(i) ==
    \E k \in LinesOf(i) : Owner(k) # 0 /\ output_lines[Owner(k)].card = 0

\* C8 (orphans): with hierarchy=True, a card is emitted in an unmatched
\* top-level group exactly when it has a parent string that no root or placed
\* card carries as front or back, and a card without parent is emitted at
\* indentation level 0.
C8_Orphans ==
    (Formatted /\ hierarchy) =>
        \A i \in 1..Len(cards) :
            /\ InUnmatchedGroup(i) <=>
                    (/\ ~IsRoot(i)
                     /\ ~\E j \in Placed : j # i /\ Matches(j, cards[i].parent))
            /\ IsRoot(i) =>
                    (/\ LinesOf(i) # {}
                     /\ \A k \in LinesOf(i) : output_lines[k].indent = 0)

(***************************************************************************)
(* Properties of the CardGenerator                                         *)
(***************************************************************************)
\* no generate_cards call is under way and none has raised
Quiescent == stack = <<>> /\ ~raised

\* C2 (dedup over a session): no two cards returned since construction (or
\* the last reset_stats) share a fingerprint, and once the calls are over
\* every fingerprint handed to the filter has been returned, so equal
\* fingerprints yield exactly one accepted card.
C2_DedupOverSession ==
    /\ \A i, j \in 1..Len(returned) : i # j => returned[i] # returned[j]
    /\ Quiescent => { returned[i] : i \in 1..Len(returned) } = submitted

C2_Witness ==
    /\ Quiescent
    /\ calls_made = 2
    /\ result # <<>>
    /\ Len(returned) > Len(result)
    /\ generation_stats.duplicates_avoided > 0

RECURSIVE CardsInFrames(_)
CardsInFrames(frames) ==
    IF frames = <<>> THEN 0 ELSE Len(Head(frames).cards) + CardsInFrames(Tail(frames))

\* the candidates accepted so far: returned already, or in the list of an
\* active call
Accepted == Len(returned) + CardsInFrames(stack)

\* C3 (duplicate counter): duplicates_avoided equals the number of candidates
\* that were dropped, that is handed to the filter and not accepted.
C3_DuplicateCounter ==
    ~raised => generation_stats.duplicates_avoided = candidates - Accepted

C3_Witness ==
    /\ Quiescent
    /\ generation_stats.duplicates_avoided >= 2
    /\ Len(returned) >= 2
    /\ calls_made = 2

\* the paths of the topics of a tree
RECURSIVE PathsOf(_)
PathsOf(t) ==
    { <<>> } \cup UNION { { <<i>> \o p : p \in PathsOf(t.subtopics[i]) } :
                            i \in 1..Len(t.subtopics) }

LogEntries == { kind_log[i] : i \in 1..Len(kind_log) }

C11_FingerprintSensitivity ==
    (card_a # NoCard /\ card_b # NoCard /\ ~SameDefiningFields(card_a, card_b))
    => card_a.source_hash # card_b.source_hash

(***************************************************************************)
(* Properties of the card formatter: cloze cards                           *)
(***************************************************************************)
\* C12 as stated (cloze formatting ignores direction): a cloze card whose
\* front holds a well-formed {{...}} span is emitted as its front, verbatim,
\* for every value of direction.
C12_ClozeVerbatimAnyDirection ==
    (format_done /\ card.card_type = "cloze" /\ ClozeSearch(card.front))
    => formatted = card.front

\* C12 as amended: a cloze card whose front holds a well-formed {{...}} span
\* is emitted as its front, verbatim, for the directions forward, backward and
\* bidirectional; a disabled cloze card is emitted as 'front =- back'.
C12_ClozeVerbatim ==
    (format_done /\ card.card_type = "cloze" /\ ClozeSearch(card.front))
    => IF card.direction = "disabled"
       THEN formatted = FrontDelimBack(card, <<"=", "-">>)
       ELSE formatted = card.front

C12_Witness ==
    /\ format_done
    /\ card.card_type = "cloze"
    /\ card.direction = "backward"
    /\ card.front = <<"{", "{", "a", "}", "}", ":", ":">>
    /\ formatted = card.front

\* C13 (unbalanced cloze): a cloze card whose front holds no well-formed
\* {{...}} span is emitted as escaped plain text: the output is the escaped
\* front, with its delimiter tokens neutralized and without a cloze span.
C13_UnbalancedCloze ==
    (/\ format_done
     /\ card.card_type = "cloze"
     /\ card.direction # "disabled"
     /\ ~ClozeSearch(card.front))
    => /\ formatted = _escape_special_chars(card.front)
       /\ NoBareToken(formatted)
       /\ ~ClozeSearch(formatted)

(***************************************************************************)
(* Properties of the escaper: cloze spans                                  *)
(***************************************************************************)
\* C14 (cloze spans survive escaping): every validated {{...}} span of the
\* text handed to _escape_special_chars, braces and content, stands unchanged
\* in the text returned.
C14_SpansSurvive ==
    escape_done =>
        \A a \in 1..Len(text), b \in 1..Len(text) :
            ClozeMatch(text, a, b) => Contains(escaped_text, SubSeq(text, a, b + 1))

(***************************************************************************)
(* Properties of the list formatter: statistics                            *)
(***************************************************************************)
\* the entry of a statistics dict for key k, 0 when the key is absent
CountIn(d, k) == IF k \in DOMAIN d THEN d[k] ELSE 0

\* C15 (statistics are recomputed fresh): after any sequence of format_cards
\* calls the statistics describe the list of the last call only: total_cards
\* is its length, cards_by_type and cards_by_direction are its per-type and
\* per-direction counts (no key for an absent value), and hierarchical_levels
\* is the number of its distinct non-empty parents.
C15_FreshStatistics ==
    format_calls > 0 =>
        /\ stats.total_cards = Len(cards)
        /\ \A t \in CardType :
              CountIn(stats.cards_by_type, t)
                  = Cardinality({ i \in 1..Len(cards) : cards[i].card_type = t })
        /\ \A d \in CardDirection :
              CountIn(stats.cards_by_direction, d)
                  = Cardinality({ i \in 1..Len(cards) : cards[i].direction = d })
        /\ \A t \in DOMAIN stats.cards_by_type : stats.cards_by_type[t] > 0
        /\ \A d \in DOMAIN stats.cards_by_direction : stats.cards_by_direction[d] > 0
        /\ stats.hierarchical_levels
              = Cardinality({ cards[i].parent : i \in 1..Len(cards) } \ { None, <<>> })

C15_Witness ==
    /\ format_calls = 2
    /\ Len(cards) = 1
    /\ cards[1].parent = tB
    /\ stats.total_cards = 1
    /\ stats.hierarchical_levels = 1

\* some field of the card is changed by escaping
NeedsEscaping(c) ==
    \/ _escape_special_chars(c.front) # c.front
    \/ _escape_special_chars(c.back) # c.back
    \/ \E k \in 1..Len(c.list_items) : _escape_special_chars(c.list_items[k]) # c.list_items[k]

\* C16 (escaping count): after format_cards, special_chars_escaped is the
\* number of cards of the list with a field that needed escaping, each such
\* card counted once.
C16_EscapingCount ==
    format_calls > 0 =>
        stats.special_chars_escaped
            = Cardinality({ i \in 1..Len(cards) : NeedsEscaping(cards[i]) })

(***************************************************************************)
(* Properties of the card formatter: cards with nested lines               *)
(***************************************************************************)
\* the lines, each escaped and on its own indented line
RECURSIVE IndentedLines(_)
IndentedLines(ls) ==
    IF ls = <<>> THEN <<>>
    ELSE <<"\n">> \o INDENT \o _escape_special_chars(Head(ls)) \o IndentedLines(Tail(ls))

\* the items with the item at (0-based) index i moved to the front, the
\* others in their original relative order
CorrectFirst(items, i) ==
    <<items[i + 1]>> \o SubSeq(items, 1, i) \o SubSeq(items, i + 2, Len(items))

\* C17 (multiple-choice formatting): a multiple-choice card with list_items
\* (two or more) and correct_choice_index within range is emitted as 'front >>A)' followed
\* by every item on its own indented line, the correct item first and the
\* others after it in their original order.
C17_MultipleChoice ==
    (/\ format_done
     /\ card.card_type = "multiple_choice"
     /\ card.direction # "disabled"
     /\ Len(card.list_items) > 1
     /\ card.correct_choice_index < Len(card.list_items))
    => formatted = _escape_special_chars(card.front) \o <<" ", ">", ">", "A", ")">>
                   \o IndentedLines(CorrectFirst(card.list_items, card.correct_choice_index))

\* C18 (list-answer formatting): a list-answer card with a non-empty
\* list_items is emitted as 'front >>1.' followed by each item, escaped, on
\* its own indented line, in the order of list_items.
C18_ListAnswer ==
    (/\ format_done
     /\ card.card_type = "list_answer"
     /\ card.direction # "disabled"
     /\ card.list_items # <<>>)
    => formatted = _escape_special_chars(card.front) \o <<" ", ">", ">", "1", ".">>
                   \o IndentedLines(card.list_items)

\* C19 (multiline-concept modes): with the triple-delimiter flag a
\* multiline-concept card is emitted as 'front :::' followed by each line of
\* back on its own indented line; without the flag as 'front ::' followed by
\* the back as one indented block.
C19_MultilineConcept ==
    (/\ format_done
     /\ card.card_type = "multiline_concept"
     /\ card.direction # "disabled"
     /\ card.back # <<>>)
    => IF card.use_triple_delimiter
       THEN formatted = _escape_special_chars(card.front) \o <<" ", ":", ":", ":">>
                        \o IndentedLines(SplitLines(card.back))
       ELSE formatted = _escape_special_chars(card.front) \o <<" ", ":", ":">>
                        \o IndentedLines(<<card.back>>)

(***************************************************************************)
(* LLMClient._retry_with_backoff                                           *)
(***************************************************************************)
\* LLMError and its subclasses
LLMErrors == { "LLMError", "RateLimitError", "TokenLimitError" }

\* the values of LLMConfig.retry_delay tried
RetryDelays == { 1, 3 }

\* a variant of the backoff in which the delay grows by retry_delay per attempt
backoff_delay_linear(delay, k) == delay * (k + 1)

\* delay = self.config.retry_delay * (2 ** attempt)
backoff_delay(delay, k) == delay * (2 ^ k)

RetryInit ==
    /\ retry_attempts \in 0..MaxAttempts
    /\ retry_delay \in RetryDelays
    /\ attempt = 0
    /\ retry_status = "running"
    /\ retry_value = None
    /\ delays = <<>>
    /\ outcomes = <<>>
    /\ EscIdle /\ CardIdle /\ HashIdle /\ FmtIdle /\ GenIdle /\ MainIdle

\* what the except clauses do after a failed attempt: sleep and go on with the
\* next attempt, or raise exc after the last one
AfterFailure(exc) ==
    IF attempt < retry_attempts - 1
    THEN /\ delays' = Append(delays, backoff_delay(retry_delay, attempt))
         /\ attempt' = attempt + 1
         /\ UNCHANGED <<retry_status, retry_value>>
    ELSE /\ retry_status' = "raised"
         /\ retry_value' = <<exc>>
         /\ UNCHANGED <<delays, attempt>>

\* one iteration of the loop: func returns
AttemptReturns ==
    /\ retry_status = "running"
    /\ attempt < retry_attempts
    /\ outcomes' = Append(outcomes, "ok")
    /\ retry_status' = "returned"
    /\ retry_value' = <<"response", attempt>>
    /\ UNCHANGED <<retry_attempts, retry_delay, attempt, delays, notRetry>>

\* one iteration of the loop: func raises RateLimitError, re-raised after the
\* last attempt
AttemptRateLimited ==
    /\ retry_status = "running"
    /\ attempt < retry_attempts
    /\ outcomes' = Append(outcomes, "rate_limit")
    /\ AfterFailure("RateLimitError")
    /\ UNCHANGED <<retry_attempts, retry_delay, notRetry>>

\* one iteration of the loop: func raises another exception, wrapped in
\* LLMError after the last attempt
AttemptFails ==
    /\ retry_status = "running"
    /\ attempt < retry_attempts
    /\ outcomes' = Append(outcomes, "failure")
    /\ AfterFailure("LLMError")
    /\ UNCHANGED <<retry_attempts, retry_delay, notRetry>>

\* range(retry_attempts) is exhausted without a return or a raise: the
\* statement after the loop raises LLMError
LoopExhausted ==
    /\ retry_status = "running"
    /\ attempt >= retry_attempts
    /\ retry_status' = "raised"
    /\ retry_value' = <<"LLMError">>
    /\ UNCHANGED <<retry_attempts, retry_delay, attempt, delays, outcomes, notRetry>>

RetryNext == AttemptReturns \/ AttemptRateLimited \/ AttemptFails \/ LoopExhausted

SpecRetry == RetryInit /\ [][RetryNext]_vars

(***************************************************************************)
(* Properties of the retry loop                                            *)
(***************************************************************************)
\* C20 (bounded retry): func is invoked at most retry_attempts times; a
\* successful attempt ends the call with that attempt's result and is the last
\* invocation; the sleeps are retry_delay, 2*retry_delay, ..., one after each
\* failed attempt but the last; after retry_attempts failed attempts the call
\* raises an LLMError; a running call can always take its next step.
C20_BoundedRetry ==
    retry_status # "idle" =>
        /\ Len(outcomes) <= retry_attempts
        /\ \A k \in 1..(Len(outcomes) - 1) : outcomes[k] # "ok"
        /\ retry_status = "returned" =>
              /\ outcomes # <<>> /\ outcomes[Len(outcomes)] = "ok"
              /\ retry_value = <<"response", Len(outcomes) - 1>>
              /\ Len(delays) = Len(outcomes) - 1
        /\ retry_status = "raised" =>
              /\ Len(outcomes) = retry_attempts
              /\ \A k \in 1..Len(outcomes) : outcomes[k] # "ok"
              /\ retry_value[1] \in LLMErrors
              /\ Len(delays) = (IF retry_attempts = 0 THEN 0 ELSE retry_attempts - 1)
        /\ retry_status = "running" =>
              /\ Len(delays) = Len(outcomes)
              /\ ENABLED RetryNext
        /\ delays # <<>> => delays[1] = retry_delay
        /\ \A k \in 2..Len(delays) : delays[k] = 2 * delays[k - 1]

C20_Witness ==
    /\ retry_status = "raised"
    /\ retry_attempts = 4
    /\ outcomes = <<"rate_limit", "failure", "failure", "rate_limit">>
    /\ delays = <<3, 6, 12>>

(***************************************************************************)
(* Properties of the CardGenerator: the tree walk                          *)
(***************************************************************************)
\* path p comes before path q, or is q, in the depth-first preorder of a tree:
\* p is a prefix of q, or p turns to an earlier subtopic where they part
PreorderLeq(p, q) ==
    \/ /\ Len(p) <= Len(q)
       /\ SubSeq(q, 1, Len(p)) = p
    \/ \E k \in 1..Len(p) :
          /\ k <= Len(q)
          /\ SubSeq(p, 1, k - 1) = SubSeq(q, 1, k - 1)
          /\ p[k] < q[k]

\* C21 (depth-first flattened order): in the list returned by
\* generate_cards(topic) the cards of a topic precede those of its
\* descendants, the cards of an earlier subtopic's subtree precede those of a
\* later one, and the cards of a subtopic were generated with parent_context
\* equal to the name of the topic above it.
C21_DepthFirstOrder ==
    (Quiescent /\ calls_made > 0 /\ kind_log # <<>>) =>
        LET tree == Trees[kind_log[1].path[1]] IN
        /\ Len(result_origins) = Len(result)
        /\ \A i, j \in 1..Len(result_origins) :
              i < j => PreorderLeq(result_origins[i].path, result_origins[j].path)
        /\ \A i \in 1..Len(result_origins) :
              LET p == result_origins[i].path IN
              result_origins[i].parent_context
                  = IF p = <<>> THEN None
                    ELSE TopicAt(tree, SubSeq(p, 1, Len(p) - 1)).name

C21_Witness ==
    /\ Quiescent
    /\ calls_made > 0
    /\ \E i, j, k \in 1..Len(result_origins) :
          /\ i < j /\ j < k
          /\ result_origins[i].path = <<>>
          /\ result_origins[j].path = <<1>>
          /\ result_origins[k].path = <<2>>
          /\ result_origins[k].parent_context = tA

(***************************************************************************)
(* Properties of the CardGenerator: the kinds derived from topic fields    *)
(***************************************************************************)
\* the topic a log entry is about
TopicOf(e) == TopicAt(Trees[e.path[1]], Tail(e.path))

\* C22 (multiple-choice generation): with the kind enabled a topic yields one
\* multiple-choice card exactly when it has at least 3 examples; its
\* list_items are the first min(4, n) examples in order and its
\* correct_choice_index is 0; otherwise it yields none.
C22_MultipleChoiceGeneration ==
    \A e \in LogEntries :
        e.kind = "multiple_choice" =>
            LET ex == TopicOf(e).examples
                n == Len(ex)
            IN IF config["multiple_choice"] /\ n >= 3
               THEN /\ Len(e.cards) = 1
                    /\ e.cards[1].card_type = "multiple_choice"
                    /\ e.cards[1].list_items = [i \in 1..(IF n < 4 THEN n ELSE 4) |-> ex[i]]
                    /\ e.cards[1].correct_choice_index = 0
               ELSE e.cards = <<>>

C22_Witness ==
    /\ config["multiple_choice"]
    /\ \E e \in LogEntries :
          /\ e.kind = "multiple_choice"
          /\ Len(TopicOf(e).examples) = 5
          /\ Len(e.cards) = 1
          /\ Len(e.cards[1].list_items) = 4
    /\ \E e \in LogEntries :
          /\ e.kind = "multiple_choice"
          /\ e.cards = <<>>

C24_MultilineThreshold ==
    \A e \in LogEntries :
        e.kind = "multiline" =>
            LET content == TopicOf(e).content
            IN IF config["multiline"] /\ Len(content) > 200
               THEN /\ Len(e.cards) = 1
                    /\ e.cards[1].card_type = "multiline_concept"
                    /\ e.cards[1].back = content
               ELSE e.cards = <<>>

C24_Witness ==
    /\ config["multiline"]
    /\ \E e \in LogEntries :
          /\ e.kind = "multiline"
          /\ Len(TopicOf(e).content) = 201
          /\ Len(e.cards) = 1
          /\ Len(e.cards[1].back) = 201

(***************************************************************************)
(* Specification of a card's way through the program: created, filtered by *)
(* the duplicate filter, then formatted                                    *)
(***************************************************************************)
PipelineInputs ==
    FormatInputs
    \cup { Flashcard("multiple_choice", tB, <<>>, tA, <<>>, "intermediate", "forward",
                     << <<"a">>, <<"b">> >>, 1, FALSE) }

\* the candidate cards have been created; nothing else has happened
PipelineInit ==
    /\ cards \in ListsUpTo(PipelineInputs, MaxGiven)
    /\ cards_after = <<>> /\ hierarchy = FALSE /\ output_lines = <<>>
    /\ stats = FormattingStats /\ format_calls = 0
    /\ EscIdle /\ CardIdle /\ HashIdle /\ GenIdle /\ RetryIdle /\ MainIdle

\* the candidates go through _is_unique_card / _register_card as in
\* generate_cards; result is the list of the accepted card objects
FilterCandidates ==
    /\ calls_made = 0
    /\ \E f \in { filter_cards(cards, [cards |-> <<>>, generated_cards |-> generated_cards,
                                       stats |-> generation_stats]) } :
          /\ result' = f.cards
          /\ generated_cards' = f.generated_cards
          /\ generation_stats' = f.stats
    /\ calls_made' = 1
    /\ UNCHANGED <<config, stack, result_origins, raised, returned, submitted, candidates,
                   kind_log, topics_started, notGen>>

\* the accepted cards are handed to format_cards
FormatAccepted ==
    /\ calls_made = 1
    /\ format_calls = 0
    /\ \E h \in BOOLEAN : format_cards(result, h)

PipelineNext == FilterCandidates \/ FormatAccepted

SpecPipeline == PipelineInit /\ [][PipelineNext]_vars

HasListsOrDetails(e) == TopicOf(e).key_concepts # <<>> \/ TopicOf(e).examples # <<>>

HasBalancedSpan(s) ==
    \E i \in 1..Len(s), j \in 1..Len(s) :
        /\ MatchAt(s, <<"{", "{">>, i)
        /\ MatchAt(s, <<"}", "}">>, j)
        /\ j > i + 2

\* C27: every cloze card produced by _generate_cloze_cards has a front that
\* contains a balanced {{...}} span and an empty back, and at most the
\* configured maximum number of cloze cards is produced per topic; a response
\* line without a balanced span produces no card.
C27_ClozeParsing ==
    \A e \in LogEntries :
        e.kind = "cloze" =>
            /\ e.produced <= MAX_CLOZE_CARDS
            /\ \A i \in 1..Len(e.cards) :
                  /\ e.cards[i].card_type = "cloze"
                  /\ HasBalancedSpan(e.cards[i].front)
                  /\ e.cards[i].back = <<>>

(***************************************************************************)
(* C28: every card is emitted once                                         *)
(***************************************************************************)
\* C28: format_cards with hierarchy=True emits each input card exactly once
\* in the document (as a root line, beneath its matched parent, or in an
\* unmatched group), never zero times and never twice; with hierarchy=False
\* the cards appear once each in input order.
C28_ExactlyOnce ==
    Formatted =>
        /\ \A i \in 1..Len(cards) : Cardinality(LinesOf(i)) = 1
        /\ ~hierarchy =>
              /\ Len(output_lines) = Len(cards)
              /\ \A k \in 1..Len(output_lines) : output_lines[k].card = k

(***************************************************************************)
(* C29: the counters of the generator                                      *)
(***************************************************************************)
\* the sum of the by_type counters
RECURSIVE SumByType(_, _)
SumByType(bt, types) ==
    IF types = {} THEN 0
    ELSE LET t == CHOOSE x \in types : TRUE
         IN bt[t] + SumByType(bt, types \ {t})

\* total_cards is the size of the seen set, and by_type counts the candidates
CountersAgree ==
    /\ generation_stats.total_cards = Cardinality(generated_cards)
    /\ SumByType(generation_stats.by_type, CardType)
           = generation_stats.total_cards + generation_stats.duplicates_avoided

\* C29: after any sequence of generate_cards and reset_stats calls on one
\* CardGenerator, total_cards equals the number of fingerprints in the seen
\* set and the sum of the by_type counters equals total_cards +
\* duplicates_avoided; reset_stats returns the seen set and all counters to
\* their initial empty/zero values.
C29_CounterAccounting ==
    /\ [](stack = <<>> => CountersAgree)
    /\ [][reset_stats => (generated_cards' = {} /\ generation_stats' = InitialStats)]_vars

\* a call has returned after an earlier call and a reset: cards were counted,
\* a duplicate was dropped, and the topics of the earlier call are forgotten
C29_Witness ==
    /\ Quiescent
    /\ calls_made = 2
    /\ generation_stats.topics_processed > 0
    /\ generation_stats.topics_processed < topics_started
    /\ generation_stats.total_cards > 1
    /\ generation_stats.duplicates_avoided > 0

(***************************************************************************)
(* Specification of main: the loop over content.topics                     *)
(***************************************************************************)
\* the content files handed to main: content.topics as indices of Trees
Contents == { <<1>>, <<2>>, <<4>>, <<1, 2>> }

\* `topic` of the loop  for topic in content.topics
MainTopic == Trees[content_topics[topic_i]]

\* main up to the loop: the content is loaded, the generator is constructed
\* as CardGenerator(llm_client), so that every kind is enabled, and all_cards
\* is empty
MainInit ==
    /\ config = [k \in AllKinds |-> TRUE]
    /\ generated_cards = {} /\ generation_stats = InitialStats
    /\ stack = <<>> /\ result = <<>> /\ result_origins = <<>> /\ raised = FALSE
    /\ returned = <<>> /\ submitted = {} /\ candidates = 0 /\ kind_log = <<>>
    /\ calls_made = 0 /\ topics_started = 0
    /\ content_topics \in Contents /\ topic_i = 1 /\ sub_j = 1 /\ main_pc = "loop" /\ all_cards = <<>>
    /\ EscIdle /\ CardIdle /\ HashIdle /\ FmtIdle /\ RetryIdle

\* main, line 345: topic_cards = generator.generate_cards(topic)
MainCallTopic ==
    /\ main_pc = "loop"
    /\ stack = <<>>
    /\ topic_i <= Len(content_topics)
    /\ stack' = <<Frame(content_topics[topic_i], <<>>, None)>>
    /\ calls_made' = calls_made + 1
    /\ topics_started' = topics_started + TreeSize(MainTopic)
    /\ main_pc' = "topic"
    /\ sub_j' = 1
    /\ UNCHANGED <<config, generated_cards, generation_stats, result, result_origins, raised,
                   returned, submitted, candidates, kind_log, content_topics, topic_i, all_cards,
                   notGenMain>>

\* main, lines 346-351: all_cards is extended with the cards of the call that
\* has returned, and generate_cards is called for the next subtopic of topic
MainCallSubtopic ==
    /\ main_pc \in {"topic", "subtopic"}
    /\ stack = <<>>
    /\ ~raised
    /\ sub_j <= Len(MainTopic.subtopics)
    /\ all_cards' = extend(all_cards, result)
    /\ stack' = <<Frame(content_topics[topic_i], <<sub_j>>, MainTopic.name)>>
    /\ calls_made' = calls_made + 1
    /\ topics_started' = topics_started + TreeSize(MainTopic.subtopics[sub_j])
    /\ main_pc' = "subtopic"
    /\ sub_j' = sub_j + 1
    /\ UNCHANGED <<config, generated_cards, generation_stats, result, result_origins, raised,
                   returned, submitted, candidates, kind_log, content_topics, topic_i, notGenMain>>

\* main, lines 346-358: the last call for this topic has returned and its
\* cards are added to all_cards, or a call has raised and the except branch
\* skips the rest of the topic; the loop goes on to the next topic
MainNextTopic ==
    /\ main_pc \in {"topic", "subtopic"}
    /\ stack = <<>>
    /\ raised \/ sub_j > Len(MainTopic.subtopics)
    /\ all_cards' = IF raised THEN all_cards ELSE extend(all_cards, result)
    /\ raised' = FALSE
    /\ topic_i' = topic_i + 1
    /\ main_pc' = "loop"
    /\ UNCHANGED <<config, generated_cards, generation_stats, stack, result, result_origins,
                   returned, submitted, candidates, kind_log, calls_made, topics_started,
                   content_topics, sub_j, notGenMain>>

MainNext ==
    MainCallTopic \/ MainCallSubtopic \/ MainNextTopic \/ ProcessTopic \/ Descend \/ ReturnCards

SpecMain == MainInit /\ [][MainNext]_vars

\* the loop over content.topics is over
MainDone == main_pc = "loop" /\ topic_i > Len(content_topics)

(***************************************************************************)
(* C30: each topic is processed once per run                               *)
(***************************************************************************)
\* the number of times generate_cards has handled the topic at path of tree t
NodeRuns(t, path) ==
    Cardinality({ k \in 1..Len(kind_log) :
                    kind_log[k].path = <<t>> \o path /\ kind_log[k].kind = "concept" })

\* the number of external calls of the kind issued for that topic
NodeRequests(t, path, kind) ==
    Cardinality({ k \in 1..Len(kind_log) :
                    /\ kind_log[k].path = <<t>> \o path
                    /\ kind_log[k].kind = kind
                    /\ kind_log[k].invoked })

RECURSIVE ContentSize(_)
ContentSize(c) == IF c = <<>> THEN 0 ELSE TreeSize(Trees[Head(c)]) + ContentSize(Tail(c))

\* C30: in the main pipeline generate_cards is invoked exactly once for each
\* topic node of every content tree (top-level topic or subtopic at any
\* depth), so every LLM-backed kind is requested at most once per topic node
\* and topics_processed equals the number of nodes.
C30_OncePerTopic ==
    /\ \A i \in 1..Len(content_topics) : \A path \in PathsOf(Trees[content_topics[i]]) :
          /\ \A kind \in LlmKinds : NodeRequests(content_topics[i], path, kind) <= 1
          /\ MainDone => NodeRuns(content_topics[i], path) = 1
    /\ MainDone => generation_stats.topics_processed = ContentSize(content_topics)

====
